---- MODULE Spec2Model ----
(***************************************************************************)
(* A model of t-ksn/core-kit: the service builder and lifecycle runner of  *)
(* src/service.go and the JSON client helper of src/httpclient/client.go.  *)
(*                                                                         *)
(* The three parts share no state (httpclient imports nothing of corekit;  *)
(* the /info closure reads only the options), so a behaviour exercises one *)
(* of them, chosen initially by `component`.                               *)
(*                                                                         *)
(* The net/http server, os/signal and encoding/json are modelled by what   *)
(* the Go standard library documents at the call sites in the source:      *)
(*  - signal.Notify never blocks sending to the channel: a signal is       *)
(*    handed to an unbuffered channel only if a receiver is blocked on it; *)
(*  - Server.Shutdown marks the server as shutting down, closes the        *)
(*    listener (ListenAndServe then returns ErrServerClosed at once), and  *)
(*    waits for connections to become idle or for the context to expire,   *)
(*    in which case it returns the context's error and closes nothing;     *)
(*  - ListenAndServe on a server already shut down returns ErrServerClosed.*)
(***************************************************************************)
EXTENDS Integers, Sequences, FiniteSets, TLC

\* ------------------------------------------------------------------ bounds
MaxRuns == 2        \* calls of Run explored per service instance
MaxInflight == 1    \* requests in flight at once per listener
MaxOpts == 3        \* options passed to NewService

\* ------------------------------------------------------ program constants
GracePeriod == 5          \* context.WithTimeout(..., 5*time.Second)
StatusNotFound == 404     \* http.StatusNotFound
StatusOKMin == 200
StatusOKMax == 299

Runs == 1..MaxRuns

VARIABLES
  component,        \* the part of the kit the behaviour exercises
  \* ---- lifecycle runner (service.Run)
  httpsEnabled,     \* options.httpsEnabled
  nruns,            \* number of calls of Run so far
  rpc,              \* rpc[r]: position of the r-th call of Run
  registered,       \* registered[r]: ch of run r is registered with signal.Notify
  wpc,              \* wpc[r]: position of the watcher goroutine of run r
  inShutdown,       \* inShutdown[r]: server r has been told to shut down
  listener,         \* listener[r]: "none" | "open" | "closed"
  lres,             \* lres[r]: what ListenAndServe(TLS) returned
  lcall,            \* lcall[r]: which listen function Run called
  deadline,         \* deadline[r]: seconds left of the shutdown context, -1 if none
  inflight,         \* inflight[r]: requests being handled on connections of server r
  sigSeen,          \* sigSeen[r]: a signal was delivered after ch of run r was registered
  sigInflight,      \* sigInflight[r]: history, kept under HistorySpec: a request was
                    \* in flight when the signal woke watcher r (until the watcher ends)
  shutErr,          \* shutErr[r]: what server.Shutdown returned
  shutdownCalls,    \* shutdownCalls[r]: calls of server.Shutdown
  listenCalls,      \* listenCalls[r]: calls of ListenAndServe(TLS)
  runErrLogs,       \* runErrLogs[r]: "[ERROR]" lines logged by Run (line 196)
  shutErrLogs,      \* shutErrLogs[r]: "[ERROR]" lines logged by the watcher (line 183)
  stoppedLogs,      \* stoppedLogs[r]: "[INFO] Service stoped" lines (line 186)
  \* ---- service builder (NewService, GET /info)
  opts,             \* the options passed to NewService
  built,            \* NewService has returned
  dependenciesInfo, \* options.dependenciesInfo: name -> probe
  probeVal,         \* probeVal[p]: what probe p returns if invoked now
  ipc,              \* position of the /info handler
  dp,               \* the handler's local map dp
  probeLog,         \* invocations of probes: <<probe, value returned>>
  infoResp,         \* the "dependencies" member of the last /info response
  \* ---- client helper (HTTPClient.Send)
  sent              \* the last call of Send and its outcome

lifeVars == <<httpsEnabled, nruns, rpc, registered, wpc, inShutdown, listener, lres,
              lcall, deadline, inflight, sigSeen, sigInflight, shutErr, shutdownCalls,
              listenCalls, runErrLogs, shutErrLogs, stoppedLogs>>
infoVars == <<opts, built, dependenciesInfo, probeVal, ipc, dp, probeLog, infoResp>>
clientVars == <<sent>>
vars == <<component, lifeVars, infoVars, clientVars>>

\* =================================================================
\* Lifecycle runner: service.Run and its watcher goroutine
\* =================================================================

InitLife ==
  /\ nruns = 0
  /\ rpc = [r \in Runs |-> "idle"]
  /\ registered = [r \in Runs |-> FALSE]
  /\ wpc = [r \in Runs |-> "none"]
  /\ inShutdown = [r \in Runs |-> FALSE]
  /\ listener = [r \in Runs |-> "none"]
  /\ lres = [r \in Runs |-> "none"]
  /\ lcall = [r \in Runs |-> "none"]
  /\ deadline = [r \in Runs |-> -1]
  /\ inflight = [r \in Runs |-> 0]
  /\ sigSeen = [r \in Runs |-> FALSE]
  /\ sigInflight = [r \in Runs |-> FALSE]
  /\ shutErr = [r \in Runs |-> "none"]
  /\ shutdownCalls = [r \in Runs |-> 0]
  /\ listenCalls = [r \in Runs |-> 0]
  /\ runErrLogs = [r \in Runs |-> 0]
  /\ shutErrLogs = [r \in Runs |-> 0]
  /\ stoppedLogs = [r \in Runs |-> 0]

\* Run is called (lines 166-175): the start is logged, a fresh http.Server is
\* built, and the unbuffered channel ch is made and registered with
\* signal.Notify. Run blocks its caller, so a further call follows the return of
\* the last.
RunCall ==
  /\ component = "lifecycle"
  /\ built
  /\ nruns < MaxRuns
  /\ nruns > 0 => rpc[nruns] = "returned"
  /\ nruns' = nruns + 1
  /\ registered' = [registered EXCEPT ![nruns + 1] = TRUE]
  /\ rpc' = [rpc EXCEPT ![nruns + 1] = "go"]
  /\ UNCHANGED <<httpsEnabled, wpc, inShutdown, listener, lres, lcall,
                 deadline, inflight, sigSeen, sigInflight, shutErr, shutdownCalls, listenCalls,
                 runErrLogs, shutErrLogs, stoppedLogs>>
  /\ UNCHANGED <<component, infoVars, clientVars>>

\* go func() { ... }() (line 176): the watcher exists but has not run yet.
RunGo(r) ==
  /\ rpc[r] = "go"
  /\ wpc' = [wpc EXCEPT ![r] = "ready"]
  /\ rpc' = [rpc EXCEPT ![r] = "listen"]
  /\ UNCHANGED <<httpsEnabled, nruns, registered, inShutdown, listener, lres, lcall,
                 deadline, inflight, sigSeen, sigInflight, shutErr, shutdownCalls, listenCalls,
                 runErrLogs, shutErrLogs, stoppedLogs>>
  /\ UNCHANGED <<component, infoVars, clientVars>>

\* The watcher reaches <-ch (line 177) and blocks on the unbuffered channel.
WatcherWait(r) ==
  /\ wpc[r] = "ready"
  /\ wpc' = [wpc EXCEPT ![r] = "recv"]
  /\ UNCHANGED <<httpsEnabled, nruns, rpc, registered, inShutdown, listener, lres,
                 lcall, deadline, inflight, sigSeen, sigInflight, shutErr, shutdownCalls,
                 listenCalls, runErrLogs, shutErrLogs, stoppedLogs>>
  /\ UNCHANGED <<component, infoVars, clientVars>>

\* What a delivered signal does to the watcher of run r: os/signal sends without
\* blocking, so the unbuffered ch (line 174) takes the signal only when the watcher
\* is blocked in the receive (line 177); otherwise the signal is dropped.
DeliverTo(r, w) ==
  IF registered[r] /\ w = "recv" THEN "woken" ELSE w

\* SIGINT or SIGTERM arrives while some channel is registered (line 175):
\* os/signal offers it to every registered channel.
Deliver ==
  /\ \E r \in Runs : registered[r]
  /\ wpc' = [r \in Runs |-> DeliverTo(r, wpc[r])]
  /\ sigSeen' = [r \in Runs |-> sigSeen[r] \/ registered[r]]
  /\ UNCHANGED <<httpsEnabled, nruns, rpc, registered, inShutdown, listener, lres,
                 lcall, deadline, inflight, shutErr, shutdownCalls, listenCalls,
                 runErrLogs, shutErrLogs, stoppedLogs>>
  /\ UNCHANGED <<component, infoVars, clientVars>>

Signal ==
  /\ Deliver
  /\ UNCHANGED sigInflight

\* The same step, with the history kept of whether a request was in flight
\* when the signal woke the watcher.
SignalRecorded ==
  /\ Deliver
  /\ sigInflight' = [r \in Runs |->
                       IF registered[r] /\ wpc[r] = "recv" THEN inflight[r] > 0
                       ELSE sigInflight[r]]

\* Which listen function Run calls (lines 190-194).
ListenFunction(https) ==
  IF https THEN "ListenAndServeTLS" ELSE "ListenAndServe"

\* Whether Run logs what the listen function returned (line 195):
\* err != nil && err != http.ErrServerClosed; and a variant that logs every
\* error.
LogsEveryListenError(err) ==
  err # "nil"

LogsListenError(err) ==
  err # "nil" /\ err # "ErrServerClosed"

\* Lines 195-198: the listen function has returned err to Run, which logs it
\* if it is an error to log, and returns.
RunReturn(r, err) ==
  /\ lres' = [lres EXCEPT ![r] = err]
  /\ runErrLogs' = [runErrLogs EXCEPT ![r] = IF LogsListenError(err) THEN @ + 1 ELSE @]
  /\ rpc' = [rpc EXCEPT ![r] = "returned"]

\* Run calls ListenAndServe(TLS) (lines 190-194). On a server already shut down
\* it returns ErrServerClosed without listening; otherwise the listener opens
\* and the call blocks in the accept loop.
ListenStart(r) ==
  /\ rpc[r] = "listen"
  /\ listenCalls' = [listenCalls EXCEPT ![r] = @ + 1]
  /\ lcall' = [lcall EXCEPT ![r] = ListenFunction(httpsEnabled)]
  /\ IF inShutdown[r]
       THEN /\ RunReturn(r, "ErrServerClosed")
            /\ UNCHANGED listener
       ELSE /\ listener' = [listener EXCEPT ![r] = "open"]
            /\ rpc' = [rpc EXCEPT ![r] = "serving"]
            /\ UNCHANGED <<lres, runErrLogs>>
  /\ UNCHANGED <<httpsEnabled, nruns, registered, wpc, inShutdown, deadline, inflight,
                 sigSeen, sigInflight, shutErr, shutdownCalls, shutErrLogs, stoppedLogs>>
  /\ UNCHANGED <<component, infoVars, clientVars>>

\* ListenAndServe(TLS) fails to start (port in use, unreadable certificate):
\* it returns an error other than ErrServerClosed (lines 190-198).
ListenFail(r) ==
  /\ rpc[r] = "listen"
  /\ ~inShutdown[r]
  /\ listenCalls' = [listenCalls EXCEPT ![r] = @ + 1]
  /\ lcall' = [lcall EXCEPT ![r] = ListenFunction(httpsEnabled)]
  /\ RunReturn(r, "error")
  /\ UNCHANGED <<httpsEnabled, nruns, registered, wpc, inShutdown, listener, deadline,
                 inflight, sigSeen, sigInflight, shutErr, shutdownCalls, shutErrLogs, stoppedLogs>>
  /\ UNCHANGED <<component, infoVars, clientVars>>

\* The accept loop ends because Shutdown closed the listener: ListenAndServe(TLS)
\* returns ErrServerClosed at once, whatever is still in flight (lines 190-198).
ServeClosed(r) ==
  /\ rpc[r] = "serving"
  /\ inShutdown[r]
  /\ RunReturn(r, "ErrServerClosed")
  /\ UNCHANGED <<httpsEnabled, nruns, registered, wpc, inShutdown, listener, lcall,
                 deadline, inflight, sigSeen, sigInflight, shutErr, shutdownCalls, listenCalls,
                 shutErrLogs, stoppedLogs>>
  /\ UNCHANGED <<component, infoVars, clientVars>>

\* The accept loop ends with a runtime error: Serve closes its listener and
\* returns the error (lines 190-198).
ServeFail(r) ==
  /\ rpc[r] = "serving"
  /\ ~inShutdown[r]
  /\ listener' = [listener EXCEPT ![r] = "closed"]
  /\ RunReturn(r, "error")
  /\ UNCHANGED <<httpsEnabled, nruns, registered, wpc, inShutdown, lcall, deadline,
                 inflight, sigSeen, sigInflight, shutErr, shutdownCalls, listenCalls,
                 shutErrLogs, stoppedLogs>>
  /\ UNCHANGED <<component, infoVars, clientVars>>

\* Lines 182-187: server.Shutdown has returned err to the watcher, which logs
\* it if it is not nil, logs that the service stopped, cancels the context and
\* ends.
WatcherReturn(r, err) ==
  /\ shutErr' = [shutErr EXCEPT ![r] = err]
  /\ shutErrLogs' = [shutErrLogs EXCEPT ![r] = IF err # "nil" THEN @ + 1 ELSE @]
  /\ stoppedLogs' = [stoppedLogs EXCEPT ![r] = @ + 1]
  /\ sigInflight' = [sigInflight EXCEPT ![r] = FALSE]
  /\ wpc' = [wpc EXCEPT ![r] = "done"]

\* The watcher, woken by a signal, logs, builds the context with the grace
\* period and calls server.Shutdown (lines 178-182): the server is marked as
\* shutting down and its listener, if open, is closed. With no request in
\* flight Shutdown returns nil at once; otherwise it waits.
WatcherShutdown(r) ==
  /\ wpc[r] = "woken"
  /\ shutdownCalls' = [shutdownCalls EXCEPT ![r] = @ + 1]
  /\ inShutdown' = [inShutdown EXCEPT ![r] = TRUE]
  /\ listener' = [listener EXCEPT ![r] = IF @ = "open" THEN "closed" ELSE @]
  /\ IF inflight[r] = 0
       THEN /\ WatcherReturn(r, "nil")
            /\ UNCHANGED deadline
       ELSE /\ wpc' = [wpc EXCEPT ![r] = "shutdown"]
            /\ deadline' = [deadline EXCEPT ![r] = GracePeriod]
            /\ UNCHANGED <<shutErr, shutErrLogs, stoppedLogs, sigInflight>>
  /\ UNCHANGED <<httpsEnabled, nruns, rpc, registered, lres, lcall, inflight, sigSeen,
                 listenCalls, runErrLogs>>
  /\ UNCHANGED <<component, infoVars, clientVars>>

\* One second passes for every shutdown context that has not expired.
Tick ==
  /\ \E r \in Runs : wpc[r] = "shutdown" /\ deadline[r] > 0
  /\ deadline' = [r \in Runs |->
                    IF wpc[r] = "shutdown" /\ deadline[r] > 0
                      THEN deadline[r] - 1 ELSE deadline[r]]
  /\ UNCHANGED <<httpsEnabled, nruns, rpc, registered, wpc, inShutdown, listener, lres,
                 lcall, inflight, sigSeen, sigInflight, shutErr, shutdownCalls, listenCalls,
                 runErrLogs, shutErrLogs, stoppedLogs>>
  /\ UNCHANGED <<component, infoVars, clientVars>>

\* server.Shutdown returns nil: the last request in flight has completed and
\* every connection is idle (lines 182-187).
ShutdownIdle(r) ==
  /\ wpc[r] = "shutdown"
  /\ inflight[r] = 0
  /\ WatcherReturn(r, "nil")
  /\ deadline' = [deadline EXCEPT ![r] = -1]
  /\ UNCHANGED <<httpsEnabled, nruns, rpc, registered, inShutdown, listener, lres,
                 lcall, inflight, sigSeen, shutdownCalls, listenCalls, runErrLogs>>
  /\ UNCHANGED <<component, infoVars, clientVars>>

\* server.Shutdown returns the context's error: the grace period elapsed with a
\* request still in flight. Shutdown closes no active connection (lines 182-187).
ShutdownExpired(r) ==
  /\ wpc[r] = "shutdown"
  /\ deadline[r] = 0
  /\ inflight[r] > 0
  /\ WatcherReturn(r, "DeadlineExceeded")
  /\ deadline' = [deadline EXCEPT ![r] = -1]
  /\ UNCHANGED <<httpsEnabled, nruns, rpc, registered, inShutdown, listener, lres,
                 lcall, inflight, sigSeen, shutdownCalls, listenCalls, runErrLogs>>
  /\ UNCHANGED <<component, infoVars, clientVars>>

\* A request arrives on the open listener of server r (Handler: serveMux, line 171).
RequestArrive(r) ==
  /\ listener[r] = "open"
  /\ inflight[r] < MaxInflight
  /\ inflight' = [inflight EXCEPT ![r] = @ + 1]
  /\ UNCHANGED <<httpsEnabled, nruns, rpc, registered, wpc, inShutdown, listener, lres,
                 lcall, deadline, sigSeen, sigInflight, shutErr, shutdownCalls, listenCalls,
                 runErrLogs, shutErrLogs, stoppedLogs>>
  /\ UNCHANGED <<component, infoVars, clientVars>>

\* A request in flight on server r completes: its handler returns and the
\* response is written.
RequestComplete(r) ==
  /\ inflight[r] > 0
  /\ inflight' = [inflight EXCEPT ![r] = @ - 1]
  /\ UNCHANGED <<httpsEnabled, nruns, rpc, registered, wpc, inShutdown, listener, lres,
                 lcall, deadline, sigSeen, sigInflight, shutErr, shutdownCalls, listenCalls,
                 runErrLogs, shutErrLogs, stoppedLogs>>
  /\ UNCHANGED <<component, infoVars, clientVars>>

LifeSteps ==
  \/ RunCall
  \/ Tick
  \/ \E r \in Runs : RunGo(r)
  \/ \E r \in Runs : WatcherWait(r)
  \/ \E r \in Runs : ListenStart(r)
  \/ \E r \in Runs : ListenFail(r)
  \/ \E r \in Runs : ServeClosed(r)
  \/ \E r \in Runs : ServeFail(r)
  \/ \E r \in Runs : WatcherShutdown(r)
  \/ \E r \in Runs : ShutdownIdle(r)
  \/ \E r \in Runs : ShutdownExpired(r)
  \/ \E r \in Runs : RequestArrive(r)
  \/ \E r \in Runs : RequestComplete(r)

NextLife == Signal \/ LifeSteps

\* =================================================================
\* Service builder: the options, NewService and the GET /info handler
\* =================================================================

Names == {"db", "cache"}         \* dependency names the callers register
ProbeValues == {"up", "down"}    \* what a probe may return

\* The options a caller passes: DependencyInfo(name, f), Param(name, val),
\* Https(certFile, keyFile). The probe f of the i-th option is named i.
OptionSet ==
  [kind : {"DependencyInfo"}, name : Names]
    \cup {[kind |-> "Param", name |-> "p"], [kind |-> "Https", name |-> ""]}

OptSeqs == UNION {[1..n -> OptionSet] : n \in 0..MaxOpts}

\* The builder's initial options (lines 102-107).
DefaultOptions ==
  [dependenciesInfo |-> [n \in {} |-> 0], httpsEnabled |-> FALSE]

\* o.dependenciesInfo[name] = f (line 62), with a first-wins variant that keeps
\* an earlier registration of the name.
DependencyInfoFirstWins(m, name, f) ==
  [n \in DOMAIN m \cup {name} |-> IF n \in DOMAIN m THEN m[n] ELSE f]

DependencyInfo(m, name, f) ==
  [n \in DOMAIN m \cup {name} |-> IF n = name THEN f ELSE m[n]]

\* One option function applied to the options (lines 48-96).
ApplyOption(o, i, c) ==
  CASE o.kind = "DependencyInfo" ->
         [c EXCEPT !.dependenciesInfo = DependencyInfo(@, o.name, i)]
    [] o.kind = "Https" -> [c EXCEPT !.httpsEnabled = TRUE]
    [] OTHER -> c

\* for _, o := range opts { o(options) } (lines 109-111): options 1..n applied
\* in order.
RECURSIVE ApplyOptions(_, _)
ApplyOptions(os, n) ==
  IF n = 0 THEN DefaultOptions
  ELSE ApplyOption(os[n], n, ApplyOptions(os, n - 1))

InitInfo ==
  /\ built = FALSE
  /\ dependenciesInfo = DefaultOptions.dependenciesInfo
  /\ probeVal = [p \in DOMAIN opts |-> "up"]
  /\ ipc = "idle"
  /\ dp = [n \in {} |-> "up"]
  /\ probeLog = <<>>
  /\ infoResp = [n \in {} |-> "up"]

\* NewService(opts...) (lines 98-140): the options are applied and the fixed
\* endpoints mounted. No probe is invoked.
NewService ==
  /\ component \in {"builder", "lifecycle"}
  /\ ~built
  /\ built' = TRUE
  /\ dependenciesInfo' = ApplyOptions(opts, Len(opts)).dependenciesInfo
  /\ httpsEnabled' = ApplyOptions(opts, Len(opts)).httpsEnabled
  /\ UNCHANGED <<opts, probeVal, ipc, dp, probeLog, infoResp>>
  /\ UNCHANGED <<nruns, rpc, registered, wpc, inShutdown, listener, lres, lcall,
                 deadline, inflight, sigSeen, sigInflight, shutErr, shutdownCalls, listenCalls,
                 runErrLogs, shutErrLogs, stoppedLogs>>
  /\ UNCHANGED <<component, clientVars>>

\* The dependency behind probe p changes state: p returns v from now on.
ProbeChange(p, v) ==
  /\ component = "builder"
  /\ opts[p].kind = "DependencyInfo"
  /\ probeVal[p] # v
  /\ probeVal' = [probeVal EXCEPT ![p] = v]
  /\ UNCHANGED <<opts, built, dependenciesInfo, ipc, dp, probeLog, infoResp>>
  /\ UNCHANGED <<component, lifeVars, clientVars>>

\* GET /info is dispatched to the handler (lines 123-125): dp is made empty.
InfoRequest ==
  /\ component = "builder"
  /\ built
  /\ ipc \in {"idle", "responded"}
  /\ ipc' = "probing"
  /\ dp' = [n \in {} |-> "up"]
  /\ probeLog' = <<>>
  /\ UNCHANGED <<opts, built, dependenciesInfo, probeVal, infoResp>>
  /\ UNCHANGED <<component, lifeVars, clientVars>>

\* One iteration of the range over options.dependenciesInfo (lines 126-128),
\* in the order the map iteration happens to take: dp[name] = d().
InfoProbe(name) ==
  /\ ipc = "probing"
  /\ name \in DOMAIN dependenciesInfo \ DOMAIN dp
  /\ LET p == dependenciesInfo[name]
         v == probeVal[p]
     IN /\ dp' = [n \in DOMAIN dp \cup {name} |-> IF n = name THEN v ELSE dp[n]]
        /\ probeLog' = Append(probeLog, <<p, v>>)
  /\ UNCHANGED <<opts, built, dependenciesInfo, probeVal, ipc, infoResp>>
  /\ UNCHANGED <<component, lifeVars, clientVars>>

\* The range is over: the response is encoded with "dependencies": dp
\* (lines 129-134).
InfoEncode ==
  /\ ipc = "probing"
  /\ DOMAIN dp = DOMAIN dependenciesInfo
  /\ infoResp' = dp
  /\ ipc' = "responded"
  /\ UNCHANGED <<opts, built, dependenciesInfo, probeVal, dp, probeLog>>
  /\ UNCHANGED <<component, lifeVars, clientVars>>

NextInfo ==
  \/ NewService
  \/ InfoRequest
  \/ InfoEncode
  \/ \E name \in Names : InfoProbe(name)
  \/ \E p \in DOMAIN opts, v \in ProbeValues : ProbeChange(p, v)

\* =================================================================
\* Client helper: HTTPClient.Send
\* =================================================================

\* The payloads a caller passes: untyped nil, a struct {A int `json:"a"`}{1},
\* a nil pointer to such a struct, and a value encoding/json cannot marshal.
Payloads == {"nil", "struct", "nilptr", "chan"}
\* Methods: two valid ones and one http.NewRequest rejects.
Methods == {"GET", "POST", "BAD METHOD"}
\* The destinations a caller passes: nil, or a pointer to a struct
\* {A int `json:"a"`} holding a.
RespObjs == {[nil |-> TRUE, a |-> 0], [nil |-> FALSE, a |-> 0], [nil |-> FALSE, a |-> 7]}
Statuses == {199, 200, 204, 299, 300, 404, 500, 503}
Bodies == {"", "oops", "null", "[1]", "{}", "{\"a\":1}", "{\"message\":\"x\"}",
           "{\"message\":\"x\",\"statusCode\":400}"}
\* What the transport's Do gives: an error, or a response with a status and a
\* body that reads to the end (readOK) or fails while being read.
Transports ==
  {[err |-> TRUE, status |-> 0, body |-> "", readOK |-> TRUE]}
    \cup [err : {FALSE}, status : Statuses, body : Bodies, readOK : BOOLEAN]

NoError == [kind |-> "nil", StatusCode |-> 0, Message |-> ""]
Wrapped(at) == [kind |-> at, StatusCode |-> 0, Message |-> ""]
EntityNotFoundErr == [kind |-> "EntityNotFoundErr", StatusCode |-> 0, Message |-> ""]

\* json.Marshal(payload) (line 28).
Marshal(payload) ==
  CASE payload = "struct" -> [err |-> FALSE, bytes |-> "{\"a\":1}"]
    [] payload = "nilptr" -> [err |-> FALSE, bytes |-> "null"]
    [] OTHER -> [err |-> TRUE, bytes |-> ""]

\* The JSON text of a body, as encoding/json parses it (lines 54 and 66).
Parse(body) ==
  CASE body = "null" ->
         [ok |-> TRUE, kind |-> "null", keys |-> {}, a |-> 0, message |-> "", statusCode |-> 0]
    [] body = "[1]" ->
         [ok |-> TRUE, kind |-> "array", keys |-> {}, a |-> 0, message |-> "", statusCode |-> 0]
    [] body = "{}" ->
         [ok |-> TRUE, kind |-> "object", keys |-> {}, a |-> 0, message |-> "", statusCode |-> 0]
    [] body = "{\"a\":1}" ->
         [ok |-> TRUE, kind |-> "object", keys |-> {"a"}, a |-> 1, message |-> "", statusCode |-> 0]
    [] body = "{\"message\":\"x\"}" ->
         [ok |-> TRUE, kind |-> "object", keys |-> {"message"}, a |-> 0, message |-> "x",
          statusCode |-> 0]
    [] body = "{\"message\":\"x\",\"statusCode\":400}" ->
         [ok |-> TRUE, kind |-> "object", keys |-> {"message", "statusCode"}, a |-> 0,
          message |-> "x", statusCode |-> 400]
    [] OTHER ->
         [ok |-> FALSE, kind |-> "", keys |-> {}, a |-> 0, message |-> "", statusCode |-> 0]

\* json.Unmarshal(body, &verr) (line 54): the members the body has are stored
\* in the APIError, the others keep their zero values.
UnmarshalAPIError(body) ==
  LET j == Parse(body) IN
  IF ~j.ok \/ j.kind = "array"
    THEN [err |-> TRUE, StatusCode |-> 0, Message |-> ""]
    ELSE [err |-> FALSE,
          StatusCode |-> IF "statusCode" \in j.keys THEN j.statusCode ELSE 0,
          Message |-> IF "message" \in j.keys THEN j.message ELSE ""]

\* json.Unmarshal(body, respObj) (line 66): a nil destination is an error; the
\* members the body has are stored, the others are left as they were.
UnmarshalInto(body, respObj) ==
  LET j == Parse(body) IN
  IF respObj.nil \/ ~j.ok \/ j.kind = "array"
    THEN [err |-> TRUE, respObj |-> respObj]
    ELSE [err |-> FALSE,
          respObj |-> [respObj EXCEPT !.a = IF "a" \in j.keys THEN j.a ELSE @]]

\* verr.StatusCode = resp.StatusCode (line 58), and a variant that forgets it.
WithStatusCodeForgotten(verr, code) ==
  [kind |-> "APIError", StatusCode |-> verr.StatusCode, Message |-> verr.Message]

WithStatusCode(verr, code) ==
  [kind |-> "APIError", StatusCode |-> code, Message |-> verr.Message]

\* if respObj == nil (line 62), and a variant that always decodes.
SkipDecodeNever(respObj) == FALSE

SkipDecode(respObj) == respObj.nil

\* Lines 47-70: the body is read and the status decides what is made of it.
ReadAndDecode(tr, respObj) ==
  IF ~tr.readOK
    THEN [err |-> Wrapped("ReadBody"), respObj |-> respObj]
  ELSE IF tr.status < StatusOKMin \/ tr.status > StatusOKMax
    THEN LET verr == UnmarshalAPIError(tr.body) IN
         IF verr.err
           THEN [err |-> Wrapped("UnmarshalResponseErr"), respObj |-> respObj]
           ELSE [err |-> WithStatusCode(verr, tr.status), respObj |-> respObj]
  ELSE IF SkipDecode(respObj)
    THEN [err |-> NoError, respObj |-> respObj]
  ELSE LET u == UnmarshalInto(tr.body, respObj) IN
       IF u.err
         THEN [err |-> Wrapped("UnmarshalResponseErr"), respObj |-> respObj]
         ELSE [err |-> NoError, respObj |-> u.respObj]

\* Lines 43-70, what Send makes of a response; and a variant that reads the
\* body before it looks for the not-found status.
HandleResponseReadFirst(tr, respObj) ==
  IF tr.readOK /\ tr.status = StatusNotFound
    THEN [err |-> EntityNotFoundErr, respObj |-> respObj]
    ELSE ReadAndDecode(tr, respObj)

HandleResponse(tr, respObj) ==
  IF tr.status = StatusNotFound
    THEN [err |-> EntityNotFoundErr, respObj |-> respObj]
    ELSE ReadAndDecode(tr, respObj)

\* HTTPClient.Send (lines 23-71): what it returns, what it leaves in respObj,
\* the body it sent, and how often it marshalled and called Do.
Send(method, payload, respObj, tr) ==
  LET m == IF payload # "nil" THEN Marshal(payload) ELSE [err |-> FALSE, bytes |-> ""]
      marshals == IF payload # "nil" THEN 1 ELSE 0
  IN
  IF m.err
    THEN [err |-> Wrapped("JSON marshal payload"), respObj |-> respObj,
          reqBody |-> "", marshals |-> marshals, doCalls |-> 0]
  ELSE IF method \notin {"GET", "POST"}
    THEN [err |-> Wrapped("NewRequest"), respObj |-> respObj,
          reqBody |-> "", marshals |-> marshals, doCalls |-> 0]
  ELSE IF tr.err
    THEN [err |-> Wrapped("Send request"), respObj |-> respObj,
          reqBody |-> m.bytes, marshals |-> marshals, doCalls |-> 1]
  ELSE LET h == HandleResponse(tr, respObj) IN
       [err |-> h.err, respObj |-> h.respObj,
        reqBody |-> m.bytes, marshals |-> marshals, doCalls |-> 1]

NoSend ==
  [called |-> FALSE, method |-> "GET", payload |-> "nil",
   respObj |-> [nil |-> TRUE, a |-> 0],
   tr |-> [err |-> TRUE, status |-> 0, body |-> "", readOK |-> TRUE],
   out |-> [err |-> NoError, respObj |-> [nil |-> TRUE, a |-> 0],
            reqBody |-> "", marshals |-> 0, doCalls |-> 0]]

InitClient == sent = NoSend

\* A caller calls Send; the transport answers with tr when Do is called.
SendCall ==
  /\ component = "client"
  /\ ~sent.called
  /\ \E method \in Methods, payload \in Payloads, respObj \in RespObjs, tr \in Transports :
       sent' = [called |-> TRUE, method |-> method, payload |-> payload,
                respObj |-> respObj, tr |-> tr,
                out |-> Send(method, payload, respObj, tr)]
  /\ UNCHANGED <<component, lifeVars, infoVars>>

\* The caller has looked at what Send returned and goes on; it may call again.
SendReturn ==
  /\ sent.called
  /\ sent' = NoSend
  /\ UNCHANGED <<component, lifeVars, infoVars>>

NextClient == SendCall \/ SendReturn

\* =================================================================
\* The whole model
\* =================================================================

Init ==
  /\ component \in {"lifecycle", "builder", "client"}
  /\ opts \in OptSeqs
  /\ component = "lifecycle" => opts \in {<<>>, <<[kind |-> "Https", name |-> ""]>>}
  /\ component = "client" => opts = <<>>
  /\ httpsEnabled = DefaultOptions.httpsEnabled
  /\ InitLife /\ InitInfo /\ InitClient

Next == NextLife \/ NextInfo \/ NextClient

Spec == Init /\ [][Next]_vars

\* The same program with the history of SignalRecorded kept.
NextRecorded == SignalRecorded \/ LifeSteps \/ NextInfo \/ NextClient

HistorySpec == Init /\ [][NextRecorded]_vars

\* What the Go scheduler and the clock guarantee: a goroutine that can take its
\* next step takes it, and time passes. Signals, requests, their completion and
\* listener failures are up to the environment.
RunStep(r) == RunGo(r) \/ ListenStart(r) \/ ServeClosed(r)
WatcherStep(r) ==
  WatcherWait(r) \/ WatcherShutdown(r) \/ ShutdownIdle(r) \/ ShutdownExpired(r)

FairSpec ==
  /\ Spec
  /\ WF_vars(Tick)
  /\ \A r \in Runs : WF_vars(RunStep(r)) /\ WF_vars(WatcherStep(r))

\* =================================================================
\* Properties
\* =================================================================

\* C1: with a request in flight when the signal is received, a request that
\* completes within the grace period (while Shutdown waits and the deadline has
\* not passed) completes before Run has returned, the listener not having
\* failed.
C1_RequestCompletesBeforeStopped ==
  [][\A r \in Runs :
       (wpc[r] = "shutdown" /\ deadline[r] > 0 /\ lres[r] # "error"
          /\ sigInflight[r] /\ inflight'[r] < inflight[r])
         => rpc[r] # "returned"]_vars

\* C2: under fair scheduling every signal delivered after Run has registered
\* for signals leads to the watcher calling server.Shutdown and to Run
\* returning: no such signal is lost.
C2_SignalLeadsToShutdown ==
  \A r \in Runs : sigSeen[r] ~> (shutdownCalls[r] >= 1 /\ rpc[r] = "returned")

\* C3: the lifecycle moves only along Created -> Listening -> ShuttingDown ->
\* Stopped: shutdown begins only on a server that is listening, and once a Run
\* has returned (Stopped) no listener is opened again.
C3_LifecycleOrder ==
  [][/\ \A r \in Runs : (~inShutdown[r] /\ inShutdown'[r]) => listener[r] = "open"
     /\ (\E r \in Runs : rpc[r] = "returned")
          => \A q \in Runs : ~(listener[q] # "open" /\ listener'[q] = "open")]_vars

\* C4: once the watcher has logged that the service stopped, no request is
\* still in flight on a connection of its server: what outlived the grace
\* period has been closed by force.
C4_NoConnectionAfterStopped ==
  \A r \in Runs : stoppedLogs[r] > 0 => inflight[r] = 0

\* C5: whenever the transport answers 404, Send returns EntityNotFoundErr and
\* leaves respObj as it was, whatever the body is and whether or not it reads.
C5_NotFound ==
  (sent.called /\ sent.out.doCalls = 1 /\ ~sent.tr.err /\ sent.tr.status = 404)
    => /\ sent.out.err = [kind |-> "EntityNotFoundErr", StatusCode |-> 0, Message |-> ""]
       /\ sent.out.respObj = sent.respObj

C5_Witness ==
  /\ sent.called /\ sent.out.doCalls = 1 /\ ~sent.tr.err /\ sent.tr.status = 404
  /\ ~sent.tr.readOK /\ ~sent.respObj.nil /\ sent.tr.body = "oops"
  /\ sent.out.err.kind = "EntityNotFoundErr"

\* The transport answered with a status outside 200..299 other than 404.
ErrorStatusAnswered ==
  /\ sent.called /\ sent.out.doCalls = 1 /\ ~sent.tr.err
  /\ (sent.tr.status < 200 \/ sent.tr.status > 299) /\ sent.tr.status # 404

\* C6 as claimed: for every such answer Send returns an APIError whose
\* StatusCode is the response's status, and respObj is left as it was.
C6_AlwaysAPIError ==
  ErrorStatusAnswered
    => /\ sent.out.err.kind = "APIError"
       /\ sent.out.err.StatusCode = sent.tr.status
       /\ sent.out.respObj = sent.respObj

\* C6 amended: for every such answer whose body reads to the end and is a JSON
\* object or null, Send returns an APIError whose StatusCode is the response's
\* status, whatever status code the body carries; otherwise it returns a
\* wrapped read or unmarshal error. respObj is left as it was in each case.
C6_APIErrorWhenDecodable ==
  ErrorStatusAnswered
    => /\ sent.out.respObj = sent.respObj
       /\ IF ~sent.tr.readOK
            THEN sent.out.err.kind = "ReadBody"
          ELSE IF sent.tr.body \in {"", "oops", "[1]"}
            THEN sent.out.err.kind = "UnmarshalResponseErr"
          ELSE /\ sent.out.err.kind = "APIError"
               /\ sent.out.err.StatusCode = sent.tr.status

C6_Witness ==
  /\ ErrorStatusAnswered
  /\ sent.tr.status = 503 /\ sent.tr.readOK
  /\ sent.tr.body = "{\"message\":\"x\",\"statusCode\":400}"
  /\ sent.out.err = [kind |-> "APIError", StatusCode |-> 503, Message |-> "x"]

\* The transport answered with a status in 200..299.
SuccessAnswered ==
  /\ sent.called /\ sent.out.doCalls = 1 /\ ~sent.tr.err
  /\ sent.tr.status >= 200 /\ sent.tr.status <= 299

\* A nil payload is not marshalled and goes out as an empty body.
NilPayloadUnmarshalled ==
  (sent.called /\ sent.payload = "nil")
    => sent.out.marshals = 0 /\ (sent.out.doCalls = 1 => sent.out.reqBody = "")

\* C7 as claimed: on a 2xx answer Send returns nil with a nil respObj whatever
\* the body, and with a destination and a body of its shape it returns nil and
\* the destination holds the decoded body; a nil payload is not marshalled.
C7_SuccessDecodes ==
  /\ (SuccessAnswered /\ sent.respObj.nil)
       => sent.out.err.kind = "nil" /\ sent.out.respObj = sent.respObj
  /\ (SuccessAnswered /\ ~sent.respObj.nil /\ sent.tr.body = "{\"a\":1}")
       => sent.out.err.kind = "nil" /\ sent.out.respObj = [nil |-> FALSE, a |-> 1]
  /\ NilPayloadUnmarshalled

\* C7 amended: the same, for a 2xx answer whose body reads to the end; a body
\* that fails while being read makes Send return the read error, also with a
\* nil respObj.
C7_SuccessDecodesWhenRead ==
  /\ (SuccessAnswered /\ sent.tr.readOK /\ sent.respObj.nil)
       => sent.out.err.kind = "nil" /\ sent.out.respObj = sent.respObj
  /\ (SuccessAnswered /\ sent.tr.readOK /\ ~sent.respObj.nil /\ sent.tr.body = "{\"a\":1}")
       => sent.out.err.kind = "nil" /\ sent.out.respObj = [nil |-> FALSE, a |-> 1]
  /\ (SuccessAnswered /\ ~sent.tr.readOK)
       => sent.out.err.kind = "ReadBody" /\ sent.out.respObj = sent.respObj
  /\ NilPayloadUnmarshalled

C7_Witness ==
  /\ SuccessAnswered /\ sent.tr.readOK /\ sent.respObj.nil
  /\ sent.tr.body = "oops" /\ sent.payload = "nil"
  /\ sent.out.err.kind = "nil" /\ sent.out.reqBody = ""

\* The positions of the options that register name n, and the last of them.
Registrations(n) ==
  {i \in DOMAIN opts : opts[i].kind = "DependencyInfo" /\ opts[i].name = n}
RegisteredNames == {n \in Names : Registrations(n) # {}}
LastRegistration(n) == CHOOSE i \in Registrations(n) : \A j \in Registrations(n) : j <= i

\* C8: the dependencies map of every /info response has exactly the names
\* registered through DependencyInfo, each bound to the value the probe
\* registered last for it returned when invoked during that request; each of
\* these probes is invoked once per request, no other probe is, and none is
\* invoked before the first request.
C8_InfoDependencies ==
  /\ built => /\ DOMAIN dependenciesInfo = RegisteredNames
              /\ \A n \in RegisteredNames : dependenciesInfo[n] = LastRegistration(n)
  /\ ipc = "idle" => probeLog = <<>>
  /\ ipc = "responded" =>
       /\ DOMAIN infoResp = RegisteredNames
       /\ Len(probeLog) = Cardinality(RegisteredNames)
       /\ \A n \in RegisteredNames :
            \E k \in DOMAIN probeLog :
              /\ probeLog[k] = <<LastRegistration(n), infoResp[n]>>
              /\ \A j \in DOMAIN probeLog : probeLog[j][1] = LastRegistration(n) => j = k

C8_Witness ==
  /\ ipc = "responded"
  /\ \E n \in Names :
       /\ Cardinality(Registrations(n)) = 2
       /\ infoResp[n] = "down"
       /\ probeVal[LastRegistration(n)] = "up"
  /\ Cardinality(RegisteredNames) = 2

\* C9: nothing is retried. Send calls Do once when marshalling and request
\* construction succeed and never otherwise, and returns every failure; Run
\* calls the listen function once, logs an error other than ErrServerClosed
\* once and returns, and does not log ErrServerClosed as an error.
C9_NoRetry ==
  /\ sent.called =>
       /\ sent.out.doCalls =
            (IF sent.payload # "chan" /\ sent.method \in {"GET", "POST"} THEN 1 ELSE 0)
       /\ sent.payload = "chan" => sent.out.err.kind = "JSON marshal payload"
       /\ (sent.payload # "chan" /\ sent.method = "BAD METHOD")
            => sent.out.err.kind = "NewRequest"
       /\ (sent.out.doCalls = 1 /\ sent.tr.err) => sent.out.err.kind = "Send request"
  /\ \A r \in Runs :
       /\ listenCalls[r] <= 1
       /\ runErrLogs[r] <= 1
       /\ rpc[r] = "returned" =>
            /\ listenCalls[r] = 1
            /\ lres[r] \in {"error", "ErrServerClosed"}
            /\ runErrLogs[r] = (IF lres[r] = "error" THEN 1 ELSE 0)
       /\ rpc[r] # "returned" => runErrLogs[r] = 0

C9_Witness ==
  \E r \in Runs :
    /\ r > 1 /\ rpc[r] = "returned" /\ lres[r] = "ErrServerClosed"
    /\ shutdownCalls[r] = 1 /\ runErrLogs[r] = 0
    /\ lres[1] = "error" /\ runErrLogs[1] = 1

\* C10: every Run has at most one call of server.Shutdown, and once Run has
\* returned no watcher of it is blocked waiting for a signal or executing
\* shutdown.
C10_WatcherEndsWithRun ==
  \A r \in Runs :
    /\ shutdownCalls[r] <= 1
    /\ rpc[r] = "returned" => wpc[r] \notin {"recv", "woken", "shutdown"}
====
